---- MODULE Spec2Model ----
(***************************************************************************)
(* Model of the 2D RRT planner, ros2rrt/rrt2D.py (RRT2DNode.run_rrt_2D and *)
(* RRT2DNode.publish_path).                                                *)
(*                                                                         *)
(* Coordinates are held in fixed point: one map unit is Scale ticks, so a  *)
(* position is a pair of integers.  Every comparison of the code between   *)
(* Euclidean norms is made on the squared norms, which is exact; the one   *)
(* place where a square root produces a value (the unit vector of the      *)
(* steering step) rounds each coordinate to the nearest tick.              *)
(*                                                                         *)
(* A node of node_list is a record [val, parent, children]; parent is the  *)
(* index of the parent in node_list (0 for None) and children is the       *)
(* sequence of the indices of the children, in insertion order.            *)
(***************************************************************************)
EXTENDS Integers, Sequences, FiniteSets

\* ------------------------------------------------------------------ bounds
Scale == 2
MapHalf == 2
MaxNodeLimit == 3
MaxIters == 4

VARIABLES start_position, goal_position, node_limit, goal_tolerance,
          step_size, obstacle_list, node_list, completed, pc, iters, path

vars == <<start_position, goal_position, node_limit, goal_tolerance,
          step_size, obstacle_list, node_list, completed, pc, iters, path>>

config == <<start_position, goal_position, node_limit, goal_tolerance,
            step_size, obstacle_list>>

\* ------------------------------------------------------------ vector maths
Sub(a, b) == <<a[1] - b[1], a[2] - b[2]>>

\* square of np.linalg.norm(v)
Norm2(v) == v[1] * v[1] + v[2] * v[2]

Sgn(n) == IF n < 0 THEN -1 ELSE IF n > 0 THEN 1 ELSE 0

\* floor of the square root of n, for 0 <= n <= hi * hi
ISqrt(n, hi) == CHOOSE r \in 0..hi : r * r <= n /\ n < (r + 1) * (r + 1)

\* one coordinate of  new_node_vec / min_distance * step_size, rounded to
\* the nearest tick:  sgn(c) * round(|c| * step / sqrt(d2))
StepComponent(c, d2, step) ==
    Sgn(c) * ((ISqrt((4 * c * c * step * step) \div d2, 2 * step) + 1) \div 2)

\* ------------------------------------------------------------------- nodes
TreeNode(val, parent) == [val |-> val, parent |-> parent, children |-> <<>>]

\* list[p].add_child(list[c])
add_child(list, p, c) ==
    [list EXCEPT ![p].children = Append(@, c)]

AddNodeNoChild(list, p, val) == Append(list, TreeNode(val, p))

\* node.add_child(new); node_list.append(new)
AddNode(list, p, val) ==
    Append(add_child(list, p, Len(list) + 1), TreeNode(val, p))

AttachGoalToRoot(list, hit, goal) == AddNode(list, 1, goal)

\* goal_node = TreeNode(self.goal_position, node); node.add_child(goal_node);
\* node_list.append(goal_node)
AttachGoal(list, hit, goal) == AddNode(list, hit, goal)

\* ---------------------------------------------------------------- obstacles
Circle(x, y, radius) ==
    [type |-> "Circle", x |-> x, y |-> y, radius |-> radius,
     width |-> 0, height |-> 0]

Rectangle(x, y, width, height) ==
    [type |-> "Rectangle", x |-> x, y |-> y, radius |-> 0,
     width |-> width, height |-> height]

CollidesNever(obstacle, p) == FALSE

\* the body of the obstacle loop: does position p lie inside the obstacle
Collides(obstacle, p) ==
    IF obstacle.type = "Circle"
    THEN Norm2(Sub(p, <<obstacle.x, obstacle.y>>))
             < obstacle.radius * obstacle.radius
    ELSE /\ 2 * obstacle.x - obstacle.width < 2 * p[1]
         /\ 2 * p[1] < 2 * obstacle.x + obstacle.width
         /\ 2 * obstacle.y - obstacle.height < 2 * p[2]
         /\ 2 * p[2] < 2 * obstacle.y + obstacle.height

Collision(list, p) == \E k \in 1..Len(list) : Collides(list[k], p)

\* --------------------------------------------------------------- the loop
LoopGuardLeq(n, limit) == n <= limit

\* while len(node_list) < self.node_limit
LoopGuard(n, limit) == n < limit

GoalReachedRootOnly(i, val, goal, tol) ==
    i = 1 /\ Norm2(Sub(goal, val)) < tol * tol

\* goal_distance < self.goal_tolerance, for node number i of the list
GoalReached(i, val, goal, tol) == Norm2(Sub(goal, val)) < tol * tol

Inf == -1

CloserOrEqual(distance2, min_distance2) ==
    min_distance2 = Inf \/ distance2 <= min_distance2

\* distance < min_distance
Closer(distance2, min_distance2) ==
    min_distance2 = Inf \/ distance2 < min_distance2

\* the for loop over node_list, from node i on: hit is the index of the node
\* at which the loop breaks (0 if it runs to the end), min_node the nearest
\* node found, min_distance2 the square of min_distance
RECURSIVE Scan(_, _, _, _, _, _, _)
Scan(list, i, random_position, goal, tol, min_distance2, min_node) ==
    IF i > Len(list)
    THEN [hit |-> 0, min_node |-> min_node, min_distance2 |-> min_distance2]
    ELSE IF GoalReached(i, list[i].val, goal, tol)
    THEN [hit |-> i, min_node |-> min_node, min_distance2 |-> min_distance2]
    ELSE LET distance2 == Norm2(Sub(random_position, list[i].val))
         IN  IF Closer(distance2, min_distance2)
             THEN Scan(list, i + 1, random_position, goal, tol,
                       distance2, i)
             ELSE Scan(list, i + 1, random_position, goal, tol,
                       min_distance2, min_node)

\* new_node_val = min_node.val + new_node_unit_vec * self.step_size
Steer(val, random_position, step) ==
    LET v  == Sub(random_position, val)
        d2 == Norm2(v)
    IN  <<val[1] + StepComponent(v[1], d2, step),
          val[2] + StepComponent(v[2], d2, step)>>

\* np.random.randint(-map_size, map_size) on both axes
Samples ==
    {<<x * Scale, y * Scale>> : x \in (-MapHalf)..(MapHalf - 1),
                                y \in (-MapHalf)..(MapHalf - 1)}

\* -------------------------------------------------------------------- Init
Starts == {<<0, 0>>, <<1, 0>>}

Goals == {<<1, 0>>, <<Scale, -Scale>>}

ObstacleLists ==
    { <<>>,
      <<Circle(Scale, Scale, Scale), Rectangle(-Scale, -Scale, Scale, Scale)>>,
      <<Circle(Scale, -Scale, 4 * MapHalf * Scale)>>,
      <<Rectangle(Scale, -Scale, 2, 2)>> }

Init ==
    /\ start_position \in Starts
    /\ goal_position \in Goals
    /\ node_limit \in 1..MaxNodeLimit
    /\ goal_tolerance = Scale
    /\ step_size \in {Scale \div 2, Scale}
    /\ obstacle_list \in ObstacleLists
    /\ node_list = <<TreeNode(start_position, 0)>>
    /\ completed = FALSE
    /\ pc = "Growing"
    /\ iters = 0
    /\ path = <<>>

\* ----------------------------------------------------------------- actions
\* one pass through the body of the while loop
LoopBody(random_position) ==
    /\ pc = "Growing"
    /\ LoopGuard(Len(node_list), node_limit)
    /\ iters < MaxIters
    /\ iters' = iters + 1
    /\ LET r == Scan(node_list, 1, random_position, goal_position,
                     goal_tolerance, Inf, 0)
       IN  IF r.hit # 0
           THEN /\ node_list' = AttachGoal(node_list, r.hit, goal_position)
                /\ completed' = TRUE
                /\ pc' = "Succeeded"
           ELSE IF r.min_distance2 # 0
           THEN LET new_node_val == Steer(node_list[r.min_node].val,
                                          random_position, step_size)
                IN  IF Collision(obstacle_list, new_node_val)
                    THEN UNCHANGED <<node_list, completed, pc>>
                    ELSE /\ node_list' = AddNode(node_list, r.min_node,
                                                 new_node_val)
                         /\ UNCHANGED <<completed, pc>>
           ELSE UNCHANGED <<node_list, completed, pc>>
    /\ UNCHANGED <<config, path>>

\* the loop condition fails: 'Path not found'
LoopExit ==
    /\ pc = "Growing"
    /\ ~LoopGuard(Len(node_list), node_limit)
    /\ ~completed
    /\ pc' = "Exhausted"
    /\ UNCHANGED <<config, node_list, completed, iters, path>>

\* the positions visited by the while loop of publish_path, from node i
RECURSIVE PathFrom(_, _)
PathFrom(list, i) ==
    IF list[i].parent = 0
    THEN <<>>
    ELSE <<list[i].val>> \o PathFrom(list, list[i].parent)

publish_path ==
    /\ pc = "Succeeded"
    /\ path' = PathFrom(node_list, Len(node_list))
    /\ pc' = "Published"
    /\ UNCHANGED <<config, node_list, completed, iters>>

Next ==
    \/ \E random_position \in Samples : LoopBody(random_position)
    \/ LoopExit
    \/ publish_path

Spec == Init /\ [][Next]_vars

\* ------------------------------------------------------ derived quantities
Nodes == 1..Len(node_list)

\* node i lies at distance less than goal_tolerance from the goal
WithinTolerance(i) ==
    Norm2(Sub(goal_position, node_list[i].val))
        < goal_tolerance * goal_tolerance

\* the goal node: the node the run appended on success
IsGoalNode(i) == completed /\ i = Len(node_list)

Succeeded == pc \in {"Succeeded", "Published"}

Finished == pc \in {"Exhausted", "Published"}

\* number of occurrences of c in the sequence s
Occurrences(s, c) == Cardinality({k \in 1..Len(s) : s[k] = c})

\* the node reached from node i by following n parent links (0 past the root)
RECURSIVE Ancestor(_, _)
Ancestor(i, n) ==
    IF n = 0 \/ i = 0 THEN i ELSE Ancestor(node_list[i].parent, n - 1)

\* the tree before the step differs from the tree after it by exactly one
\* node, appended at position val as the last child of node p
AppendedOne(p, val) ==
    /\ Len(node_list') = Len(node_list) + 1
    /\ node_list'[Len(node_list')] = TreeNode(val, p)
    /\ \A j \in Nodes :
          /\ node_list'[j].val = node_list[j].val
          /\ node_list'[j].parent = node_list[j].parent
          /\ node_list'[j].children =
                IF j = p THEN Append(node_list[j].children, Len(node_list) + 1)
                         ELSE node_list[j].children

\* ------------------------------------------------------------------ claims

\* C1: the run terminates after at most node_limit growth iterations of the
\* while loop (so the number of iterations made never exceeds node_limit).
C1_TerminatesWithinNodeLimit == iters <= node_limit

\* C2: whenever the run ends in Failure ('Path not found'), no node of the
\* final node list is at distance less than goal_tolerance from the goal.
C2_FailureMeansGoalNotReached ==
    pc = "Exhausted" => \A i \in Nodes : ~WithinTolerance(i)

\* C3: on Success the published path starts at the goal position, ends at
\* the start position, and consecutive elements are (child, parent) pairs.
C3_PathGoalToStart ==
    pc = "Published" =>
        /\ Len(path) >= 1
        /\ path[1] = goal_position
        /\ path[Len(path)] = start_position
        /\ \A k \in 1..(Len(path) - 1) :
              \E i \in Nodes :
                 /\ node_list[i].parent # 0
                 /\ node_list[i].val = path[k]
                 /\ node_list[node_list[i].parent].val = path[k + 1]

\* C4: in every successful run no non-root node, the goal node included,
\* lies inside an obstacle of obstacle_list.
C4_NodesCollisionFree ==
    Succeeded =>
        \A i \in Nodes \ {1} : ~Collision(obstacle_list, node_list[i].val)

\* C5: the node list is always a single tree rooted at the start node: the
\* first element is the parentless root, every other element has a parent
\* earlier in the list, is held exactly once in that parent's children and
\* in no other node's children, and its parent links lead to the root.
C5_TreeWellFormed ==
    /\ node_list[1].parent = 0
    /\ node_list[1].val = start_position
    /\ \A i \in Nodes \ {1} :
          /\ node_list[i].parent \in 1..(i - 1)
          /\ \A q \in Nodes :
                Occurrences(node_list[q].children, i) =
                    IF q = node_list[i].parent THEN 1 ELSE 0
          /\ \E n \in 1..Len(node_list) : Ancestor(i, n) = 1
    /\ \A q \in Nodes :
          \A k \in 1..Len(node_list[q].children) :
             node_list[q].children[k] \in Nodes \ {1}

C5_Witness ==
    /\ pc = "Exhausted"
    /\ Len(node_list) >= 3
    /\ \E i \in Nodes : node_list[i].parent > 1

\* C6: when the start is within goal_tolerance of the goal (node_limit > 0),
\* the run ends in Success with exactly two nodes, the root and a goal node
\* at the goal position whose parent is the root.
C6_StartWithinTolerance ==
    (Finished /\ Norm2(Sub(goal_position, start_position))
                    < goal_tolerance * goal_tolerance) =>
        /\ pc = "Published"
        /\ completed
        /\ Len(node_list) = 2
        /\ node_list[2].val = goal_position
        /\ node_list[2].parent = 1

\* C7: the node list, root and goal node included, never holds more than
\* node_limit nodes.
C7_NodeLimitBound == Len(node_list) <= node_limit

C7_Witness ==
    /\ pc = "Published"
    /\ Len(node_list) = node_limit
    /\ Len(node_list) >= 3

\* C8: an iteration that starts with some node within goal_tolerance of the
\* goal succeeds in that iteration: it appends exactly one node, at the goal
\* position, whose parent is the first such node in insertion order, and
\* once the run has succeeded the node list never changes again.
C8_GoalAttachedAtFirstHit ==
    [][ /\ (iters' = iters + 1 /\ \E i \in Nodes : WithinTolerance(i)) =>
              LET h == CHOOSE i \in Nodes :
                          /\ WithinTolerance(i)
                          /\ \A j \in 1..(i - 1) : ~WithinTolerance(j)
              IN  /\ completed'
                  /\ pc' = "Succeeded"
                  /\ AppendedOne(h, goal_position)
        /\ completed => node_list' = node_list
      ]_vars

C8_Witness ==
    /\ pc = "Succeeded"
    /\ completed
    /\ node_list[Len(node_list)].val = goal_position
    /\ node_list[Len(node_list)].parent > 1

\* C9: an iteration whose nearest node is at distance zero from the sample,
\* or whose candidate position collides with an obstacle, leaves the node
\* list unchanged; every other iteration that does not succeed appends
\* exactly one node, as a child of the nearest node (the first one on ties),
\* and changes nothing else.
C9_IterationAtomic ==
    [][ \A s \in Samples :
          (iters' = iters + 1 /\ ~completed' /\ LoopBody(s)) =>
             LET D2(i) == Norm2(Sub(s, node_list[i].val))
                 nearest == CHOOSE i \in Nodes :
                               /\ \A j \in Nodes : D2(i) <= D2(j)
                               /\ \A j \in 1..(i - 1) : D2(j) > D2(i)
                 candidate == Steer(node_list[nearest].val, s, step_size)
             IN  /\ UNCHANGED <<config, completed, pc, path>>
                 /\ IF D2(nearest) = 0
                       \/ Collision(obstacle_list, candidate)
                    THEN node_list' = node_list
                    ELSE AppendedOne(nearest, candidate)
      ]_vars

C9_Witness ==
    /\ ~completed
    /\ obstacle_list # <<>>
    /\ Len(node_list) >= 3
    /\ iters > Len(node_list) - 1

\* C10: at most one node other than the goal node is within goal_tolerance
\* of the goal; such a node is the root or the most recently inserted
\* extension node, and on Success it is the parent of the goal node.
C10_SingleNodeWithinTolerance ==
    LET W == {i \in Nodes : WithinTolerance(i) /\ ~IsGoalNode(i)}
        last == IF completed THEN Len(node_list) - 1 ELSE Len(node_list)
    IN  /\ Cardinality(W) <= 1
        /\ W \subseteq {1, last}
        /\ completed => W = {node_list[Len(node_list)].parent}

C10_Witness ==
    /\ pc = "Exhausted"
    /\ Len(node_list) >= 3
    /\ WithinTolerance(Len(node_list))
====
